---- MODULE Spec2Model ----
(***************************************************************************)
(* Model of the metric evaluation pipeline of the quiz benchmark:          *)
(*   src/src/metrics/base.py      BaseMetric.evaluate and its hooks        *)
(*   src/src/metrics/coverage.py  coverage weights, score prompt, schema   *)
(*   src/src/models/result.py     MetricResult                             *)
(*   src/src/runners/benchmark.py the runner's try/except around evaluate  *)
(*   src/src/analysis/aggregator.py  aggregate, aggregate_by_quiz and     *)
(*                                   aggregate_by_metric                   *)
(*   src/src/metrics/registry.py  MetricRegistry                           *)
(*   src/src/runners/benchmark.py run and _evaluate_quiz (SpecRunner)      *)
(* SpecConcurrent runs two evaluate calls side by side.                    *)
(*                                                                         *)
(* Scores are fixed point, in hundredths: 67.5 is 6750, 100 is 10000.      *)
(* An absent optional value (None) is a record whose `some` field is FALSE.*)
(***************************************************************************)
EXTENDS Integers, Sequences, FiniteSets, TLC

\* ---------------------------------------------------------------- bounds
MaxQuestions == 2
MaxResults == 2
MaxRuns == 2
MaxScores == 3
MaxFailures == 2

\* ------------------------------------------------------------ the metrics
\* The four metric classes of the repository and a subclass written to the
\* hook contract of BaseMetric (generate_context, get_per_question_prompt,
\* get_per_question_schema, get_prompt with the abstract signature).
RepoMetrics == {"difficulty", "grammatical_correctness", "coverage", "clarity"}

Metrics == RepoMetrics \cup {"staged"}

\* A class can be instantiated only if it implements the abstract get_prompt.
DefinesGetPrompt(m) == m \in {"difficulty", "grammatical_correctness", "staged"}

\* Classes that override generate_context / get_per_question_prompt.
OverridesContext(m) == m = "staged"

OverridesPerQuestion(m) == m = "staged"

\* MetricParameter names declared by each class.
Parameters(m) ==
  CASE m = "difficulty" -> {"rubric", "target_audience"}
    [] m = "grammatical_correctness" -> {"error_weights", "language"}
    [] m = "coverage" -> {"granularity"}
    [] OTHER -> {}

\* -------------------------------------------------------------- the inputs
QuestionIds == 1..MaxQuestions

None == [some |-> FALSE, questions |-> <<>>]

Quizzes == {None} \cup {[some |-> TRUE, questions |-> [i \in 1..n |-> i]] : n \in 0..MaxQuestions}

\* question argument: 0 is None, otherwise a question id
QuestionArgs == {0, 1}

\* source_text argument: "None", the empty string, or a text
SourceTexts == {"None", "", "text"}

\* **params given by the caller, as the set of keyword names
ParamSets == {{}, {"rubric"}, {"granularity"}, {"bogus"}}

\* payloads a context response may carry (which topics were extracted)
ContextData == {1, 2}

\* cognitive levels a per-question response may carry
Levels == {1, 3}

\* score field of a final response, in hundredths; hasScore FALSE is a
\* payload without the key
RespScores == {-100, 0, 8555, 10000, 10100}

FinalResponses == {[hasScore |-> TRUE, score |-> s] : s \in RespScores}
                    \cup {[hasScore |-> FALSE, score |-> 0]}

NoContext == [ran |-> FALSE, data |-> 0]

NoResults == [some |-> FALSE, results |-> <<>>]

NoStructured == [hasScore |-> FALSE, score |-> 0]

NoResult == [some |-> FALSE, score |-> 0, raw_response |-> NoStructured]

NoCall == [stage |-> "none", q |-> 0]

NoErr == [kind |-> "none", names |-> "", at |-> "none"]

\* ------------------------------------------------ coverage: the inputs
\* granularity as evaluate receives it; "None" when the caller passes none
Granularities == {"broad", "detailed", "balanced", "fine"}

GranularityParams == Granularities \cup {"None"}

\* accumulated["extract"]: number of topics and of critical concepts
NoExtract == [some |-> FALSE, topics |-> 0, critical |-> 0]

Extracts == {NoExtract} \cup
  {[some |-> TRUE, topics |-> t, critical |-> c] : t \in {0, 3}, c \in {0, 2}}

\* accumulated["map"]: data["results"], the cognitive_level_score of each entry
NoMap == [some |-> FALSE, results |-> <<>>]

LevelSeqs == UNION {[1..n -> Levels] : n \in 0..MaxQuestions}

Maps == {NoMap} \cup {[some |-> TRUE, results |-> r] : r \in LevelSeqs}

\* the map results of a quiz hold one entry per question of that quiz
PhaseInputs ==
  {inp \in [quiz : Quizzes, extract : Extracts, map : Maps] :
     (inp.quiz.some /\ inp.map.some) => Len(inp.map.results) = Len(inp.quiz.questions)}

NoPhaseInput == [quiz |-> None, extract |-> NoExtract, map |-> NoMap]

\* the judge's score response: sub_scores and final_score, in hundredths
ScoreResponses ==
  [breadth : {2000, 3000}, depth : {-100, 500, 2000}, balance : {1300},
   critical : {2000}, final_score : {5200, 5800, 5841, 7300, 7400, 7401, 10050}]

NoScoreResponse == [breadth |-> 0, depth |-> 0, balance |-> 0, critical |-> 0,
                    final_score |-> 0]

NoWeights == [breadth |-> 0, depth |-> 0, balance |-> 0, critical |-> 0]

NoScorePrompt ==
  [built |-> FALSE, granularity |-> "", weights |-> NoWeights, num_questions |-> 0,
   num_topics |-> 0, ideal_questions |-> 0, levels |-> <<>>,
   critical_fixed |-> FALSE, critical_divisor |-> 0]

NoWeightsCall == [granularity |-> "", weights |-> NoWeights]

NoAggCall == [fn |-> "none", metric_name |-> ""]

\* ------------------------------------------------ the registry: the inputs
\* the classes handed to register: the four metric classes of the
\* repository, the hook-contract subclass, a subclass of DifficultyMetric
\* (it inherits the name) and tests/test_registry.py's NotAMetric
MetricClasses ==
  {"DifficultyMetric", "GrammaticalCorrectnessMetric", "CoverageMetric",
   "ClarityMetric", "StagedMetric", "DifficultySubclass"}

\* the name property of an instance of the class
NameOfClass(c) ==
  CASE c \in {"DifficultyMetric", "DifficultySubclass"} -> "difficulty"
    [] c = "GrammaticalCorrectnessMetric" -> "grammatical_correctness"
    [] c = "CoverageMetric" -> "coverage"
    [] c = "ClarityMetric" -> "clarity"
    [] c = "StagedMetric" -> "staged"
    [] OTHER -> ""

NoRegResult == [names |-> <<>>, instance |-> ""]

\* -------------------------------------------------- the runner: the inputs
\* metrics a configuration names: two subclasses written to the hook
\* contract, one per scope, and coverage, which cannot be registered
RunnerMetricNames == {"staged", "staged_quiz", "coverage"}

\* the names MetricRegistry.create instantiates when _init_metrics runs
RegisteredMetrics == {"staged", "staged_quiz"}

\* the scope property of a metric instance
Scope(name) == IF name \in {"staged_quiz", "coverage"} THEN "quiz_level" ELSE "question_level"

\* evaluators a metric configuration lists; missing_eval is not among the
\* configured evaluators
EvaluatorNames == {"eval_a", "eval_b", "eval_c", "missing_eval"}

\* the evaluators _init_evaluators creates
InitialisedEvaluators == {"eval_a", "eval_b", "eval_c"}

\* EvaluatorConfig.model of each evaluator: eval_a and eval_b are two
\* configurations of one model
ModelOf(evaluator_name) == IF evaluator_name = "eval_c" THEN "v2_mock" ELSE "mock"

\* the score the evaluator's model gives, in hundredths
JudgedScore(evaluator_name) == IF evaluator_name = "eval_a" THEN 100 ELSE 300

EvaluatorLists == {<<"eval_a">>, <<"eval_a", "eval_b">>, <<"missing_eval", "eval_c">>}

MetricConfigs == [name : RunnerMetricNames, evaluators : EvaluatorLists, enabled : BOOLEAN]

\* one or two metric configurations, at most three evaluator entries in all
MetricConfigLists ==
  {<<mc>> : mc \in MetricConfigs}
    \cup {<<mc1, mc2>> : mc1 \in {mc \in MetricConfigs : Len(mc.evaluators) = 1},
                          mc2 \in {mc \in MetricConfigs : mc.enabled}}

RunnerQuizzes ==
  <<[quiz_id |-> "quiz_1", questions |-> <<"q1", "q2">>],
    [quiz_id |-> "quiz_2", questions |-> <<"q1">>]>>

\* run is given none, the first or both of the quizzes
RunnerConfigs ==
  [runs : 1..MaxRuns, metrics : MetricConfigLists,
   quizzes : {SubSeq(RunnerQuizzes, 1, n) : n \in 0..2}]

\* ------------------------------------- concurrent evaluations: the inputs
Evaluations == {1, 2}

\* quiz.questions and source_text of an evaluation; a source text is
\* identified by a number
ConcurrentInputs == [questions : {<<1>>, <<1, 2>>}, source_text : {1, 2}]

NoLLMCall == [stage |-> "none", context |-> 0, q |-> 0, levels |-> <<>>]

VARIABLES
  pc,                   \* position of the evaluation
  metric,               \* the metric class being evaluated
  llm_client,           \* TRUE when an LLM client was passed
  quiz, question, source_text, params,
  context,              \* result of generate_context
  prompts,              \* per-question prompts, None entries included
  valid_prompts,        \* the prompts still to be sent by run_stage
  per_question_results, \* responses of the fan-out stage
  final_prompt,         \* what get_prompt was handed
  structured,           \* response of the final stage
  result,               \* the EvaluationResult returned
  err,                  \* the exception raised
  inflight,             \* the LLM call that has not returned yet
  responses,            \* the list run_stage has collected so far
  log,                  \* every prompt built and LLM call made, in order
  metric_results,       \* the runner's MetricResult list (scores)
  cov_pc,               \* position of the coverage score phase
  granularity_param,    \* granularity passed to evaluate ("None": not passed)
  phase_input,          \* PhaseInput handed to the score prompt builder
  score_prompt,         \* what the score prompt states
  score_response,       \* the judge's response to the score prompt
  coverage_score,       \* what parse_score returns
  cov_err,              \* the exception the score phase raised
  weights_call,         \* a call of _get_weights and what it returned
  run_metrics,          \* the MetricResults of the run in progress
  benchmark_results,    \* the BenchmarkResult list handed to the aggregator
  agg_call,             \* the aggregator call made last and its metric_name
  aggregations,         \* the dict of MetricAggregation that call returned
  agg_err,              \* the exception that call raised
  agg_input,            \* the results list as it was handed to that call
  agg_previous,         \* what the call before returned for the same list
  agg_summary,          \* total_runs and quiz_ids of the AggregatedResults
  by_quiz,              \* the dict that aggregate_by_quiz returned
  \* the metric registry
  reg_metrics,          \* MetricRegistry._metrics: [name, class] in insertion order
  reg_call,             \* the registry operation made last and its argument
  reg_result,           \* what it returned: a list of names or an instance
  reg_err,              \* the exception it raised
  reg_before,           \* _metrics as it was when that operation began
  reg_listed,           \* names whose registration completed since the last clear
  \* the benchmark runner
  runner_config,        \* runs, metrics and the quizzes handed to run
  runner_pc,            \* none, constructed, running, returned, raised, aggregated
  run_number,           \* the loop variables of run and _evaluate_quiz
  quiz_index,
  eval_index,
  quiz_metric_results,  \* metric_results of the _evaluate_quiz call in progress
  all_results,          \* all_results of run
  evaluate_calls,       \* the evaluate calls made so far and how each ended
  run_aggregations,     \* aggregate(all_results) once run has returned
  \* two evaluate calls in progress at once; every variable but the last
  \* two maps an evaluation to a local of its evaluate call
  ce_input,             \* quiz and source_text the call was given
  ce_pc,                \* where the call stands
  ce_context,           \* context
  ce_prompts,           \* the per-question prompts not yet sent
  ce_responses,         \* the per-question responses received so far
  ce_inflight,          \* the LLM call it is waiting for
  ce_result,            \* the EvaluationResult it returned
  collected_results,    \* metric_results, shared: the finished results
  llm_calls             \* the LLM calls of both evaluations in the order sent

evalVars == <<pc, metric, llm_client, quiz, question, source_text, params, context,
          prompts, valid_prompts, per_question_results, final_prompt,
          structured, result, err, inflight, responses, log, metric_results>>

covVars == <<cov_pc, granularity_param, phase_input, score_prompt, score_response,
             coverage_score, cov_err, weights_call>>

aggVars ==
  <<run_metrics, benchmark_results, agg_call, aggregations, agg_err,
    agg_input, agg_previous, agg_summary, by_quiz>>

regVars == <<reg_metrics, reg_call, reg_result, reg_err, reg_before, reg_listed>>

runnerVars ==
  <<runner_config, runner_pc, run_number, quiz_index, eval_index,
    quiz_metric_results, all_results, evaluate_calls, run_aggregations>>

concVars ==
  <<ce_input, ce_pc, ce_context, ce_prompts, ce_responses, ce_inflight, ce_result,
    collected_results, llm_calls>>

\* what the actions of one part of the model leave alone
notEvalVars == <<covVars, aggVars, regVars, runnerVars, concVars>>

notCovVars == <<evalVars, aggVars, regVars, runnerVars, concVars>>

notAggVars == <<evalVars, covVars, regVars, runnerVars, concVars>>

notRegVars == <<evalVars, covVars, aggVars, runnerVars, concVars>>

notRunnerVars == <<evalVars, covVars, aggVars, regVars, concVars>>

notConcVars == <<evalVars, covVars, aggVars, regVars, runnerVars>>

vars == <<evalVars, covVars, aggVars, regVars, runnerVars, concVars>>

inputs == <<metric, llm_client, quiz, question, source_text, params>>

NoFinalPrompt == [built |-> FALSE, context |-> NoContext, per_question_results |-> NoResults]

Init ==
  /\ pc = "idle"
  /\ metric = "difficulty"
  /\ llm_client = FALSE
  /\ quiz = None
  /\ question = 0
  /\ source_text = "None"
  /\ params = {}
  /\ context = NoContext
  /\ prompts = <<>>
  /\ valid_prompts = <<>>
  /\ per_question_results = NoResults
  /\ final_prompt = NoFinalPrompt
  /\ structured = NoStructured
  /\ result = NoResult
  /\ err = NoErr
  /\ inflight = NoCall
  /\ responses = <<>>
  /\ log = <<>>
  /\ metric_results = <<>>
  /\ cov_pc = "idle"
  /\ granularity_param = "None"
  /\ phase_input = NoPhaseInput
  /\ score_prompt = NoScorePrompt
  /\ score_response = NoScoreResponse
  /\ coverage_score = -1
  /\ cov_err = "none"
  /\ weights_call = NoWeightsCall
  /\ run_metrics = <<>>
  /\ benchmark_results = <<>>
  /\ agg_call = NoAggCall
  /\ aggregations = <<>>
  /\ agg_err = "none"
  /\ agg_input = <<>>
  /\ agg_previous = <<>>
  /\ agg_summary = [total_runs |-> 0, quiz_ids |-> <<>>]
  /\ by_quiz = <<>>
  /\ reg_metrics = <<>>
  /\ reg_call = [op |-> "none", arg |-> ""]
  /\ reg_result = NoRegResult
  /\ reg_err = "none"
  /\ reg_before = <<>>
  /\ reg_listed = {}
  /\ runner_config = [runs |-> 0, metrics |-> <<>>, quizzes |-> <<>>]
  /\ runner_pc = "none"
  /\ run_number = 0
  /\ quiz_index = 0
  /\ eval_index = 0
  /\ quiz_metric_results = <<>>
  /\ all_results = <<>>
  /\ evaluate_calls = <<>>
  /\ run_aggregations = <<>>
  /\ ce_input = [p \in Evaluations |-> [questions |-> <<>>, source_text |-> 0]]
  /\ ce_pc = [p \in Evaluations |-> "idle"]
  /\ ce_context = [p \in Evaluations |-> 0]
  /\ ce_prompts = [p \in Evaluations |-> <<>>]
  /\ ce_responses = [p \in Evaluations |-> <<>>]
  /\ ce_inflight = [p \in Evaluations |-> NoLLMCall]
  /\ ce_result = [p \in Evaluations |-> 0]
  /\ collected_results = <<>>
  /\ llm_calls = <<>>

\* raise: the evaluation ends with an exception
Raise(kind, names, at) ==
  /\ pc' = "raised"
  /\ err' = [kind |-> kind, names |-> names, at |-> at]

Fresh ==
  /\ context' = NoContext
  /\ prompts' = <<>>
  /\ valid_prompts' = <<>>
  /\ per_question_results' = NoResults
  /\ final_prompt' = NoFinalPrompt
  /\ structured' = NoStructured
  /\ result' = NoResult
  /\ inflight' = NoCall
  /\ responses' = <<>>
  /\ log' = <<>>

\* metric_class() followed by metric.evaluate(question, quiz, source_text,
\* llm_client, **params): instantiation fails for a class that leaves the
\* abstract get_prompt unimplemented.
Construct(m, l, qz, qn, st, ps) ==
  /\ pc = "idle"
  /\ Len(metric_results) < MaxResults
  /\ metric' = m
  /\ llm_client' = l
  /\ quiz' = qz
  /\ question' = qn
  /\ source_text' = st
  /\ params' = ps
  /\ Fresh
  /\ IF DefinesGetPrompt(m)
       THEN pc' = "entry" /\ err' = NoErr
       ELSE Raise("TypeError", "get_prompt", "construct")
  /\ UNCHANGED metric_results
  /\ UNCHANGED notEvalVars

\* ------------------------------------------------------------- the log
\* One entry per prompt built and per LLM call issued or returned.  A build
\* entry records what the builder was handed.
Stages == <<"context", "question", "final">>

Rank(stage) == CHOOSE i \in 1..3 : Stages[i] = stage

Event(ev, stage, q, ctx, pqr) ==
  [ev |-> ev, stage |-> stage, q |-> q, context |-> ctx, per_question_results |-> pqr]

\* llm_client.generate_structured(prompt, schema) is entered
Issue(stage, q) ==
  /\ inflight' = [stage |-> stage, q |-> q]
  /\ log' = Append(log, Event("issue", stage, q, NoContext, NoResults))

Returned(stage, q) ==
  /\ inflight' = NoCall
  /\ log' = Append(log, Event("return", stage, q, NoContext, NoResults))

\* ------------------------------------------------------------- evaluate
\* evaluate goes on without looking at llm_client
EntryNoCheck ==
  /\ pc = "entry"
  /\ pc' = "context"
  /\ UNCHANGED <<inputs, context, prompts, valid_prompts, per_question_results,
                 final_prompt, structured, result, err, inflight, responses, log,
                 metric_results>>
  /\ UNCHANGED notEvalVars

\* base.py 161-162
Entry ==
  /\ pc = "entry"
  /\ IF ~llm_client
       THEN Raise("ValueError", metric, "entry")
       ELSE pc' = "context" /\ UNCHANGED err
  /\ UNCHANGED <<inputs, context, prompts, valid_prompts, per_question_results,
                 final_prompt, structured, result, inflight, responses, log,
                 metric_results>>
  /\ UNCHANGED notEvalVars

\* generate_context sends its call without waiting for the answer
GenerateContextNoWait ==
  /\ pc = "context"
  /\ IF source_text = "text" /\ OverridesContext(metric)
       THEN /\ inflight' = [stage |-> "context", q |-> 0]
            /\ log' = log \o <<Event("build", "context", 0, NoContext, NoResults),
                               Event("issue", "context", 0, NoContext, NoResults)>>
       ELSE UNCHANGED <<inflight, log>>
  /\ pc' = "prompts"
  /\ UNCHANGED <<inputs, context, prompts, valid_prompts, per_question_results,
                 final_prompt, structured, result, err, responses, metric_results>>
  /\ UNCHANGED notEvalVars

\* base.py 165: generate_context runs only for a non-empty source_text; an
\* overriding hook sends one structured call, the default returns {}.
GenerateContext ==
  /\ pc = "context"
  /\ IF source_text = "text" /\ OverridesContext(metric)
       THEN /\ pc' = "context_wait"
            /\ inflight' = [stage |-> "context", q |-> 0]
            /\ log' = log \o <<Event("build", "context", 0, NoContext, NoResults),
                               Event("issue", "context", 0, NoContext, NoResults)>>
       ELSE /\ pc' = "prompts"
            /\ UNCHANGED <<inflight, log>>
  /\ UNCHANGED <<inputs, context, prompts, valid_prompts, per_question_results,
                 final_prompt, structured, result, err, responses, metric_results>>
  /\ UNCHANGED notEvalVars

ContextReturns(data) ==
  /\ pc = "context_wait"
  /\ context' = [ran |-> TRUE, data |-> data]
  /\ Returned("context", 0)
  /\ pc' = "prompts"
  /\ UNCHANGED <<inputs, prompts, valid_prompts, per_question_results,
                 final_prompt, structured, result, err, responses, metric_results>>
  /\ UNCHANGED notEvalVars

\* the prompt get_per_question_prompt returns for question q: None for the
\* default hook and for a question the overriding hook skips
QuestionPrompt(q, skipped) ==
  [some |-> OverridesPerQuestion(metric) /\ q \notin skipped, q |-> q, context |-> context]

RECURSIVE SelectSeq2(_, _)
\* [p for p in prompts if p is not None]
SelectSeq2(s, i) ==
  IF i > Len(s) THEN <<>>
  ELSE IF s[i].some THEN <<s[i]>> \o SelectSeq2(s, i + 1)
  ELSE SelectSeq2(s, i + 1)

ValidPrompts(ps) == SelectSeq2(ps, 1)

\* base.py 167-178: with a quiz, one prompt per question is built first; the
\* fan-out stage runs if any of them is not None.  Without a quiz the stage
\* is passed over.
BuildQuestionPrompts(skipped) ==
  /\ pc = "prompts"
  /\ IF quiz.some
       THEN LET n == Len(quiz.questions)
                built == [i \in 1..n |-> QuestionPrompt(quiz.questions[i], skipped)]
            IN /\ prompts' = built
               /\ log' = log \o [i \in 1..n |->
                            Event("build", "question", quiz.questions[i],
                                  built[i].context, NoResults)]
               /\ valid_prompts' = ValidPrompts(built)
               /\ pc' = IF ValidPrompts(built) # <<>> THEN "fanout" ELSE "final"
       ELSE /\ pc' = "final"
            /\ UNCHANGED <<prompts, valid_prompts, log>>
  /\ UNCHANGED <<inputs, context, per_question_results, final_prompt, structured,
                 result, err, inflight, responses, metric_results>>
  /\ UNCHANGED notEvalVars

\* base.py 87: run_stage sends the prompts one after the other
IssueQuestionCall ==
  /\ pc = "fanout"
  /\ inflight = NoCall
  /\ valid_prompts # <<>>
  /\ Issue("question", Head(valid_prompts).q)
  /\ UNCHANGED <<pc, inputs, context, prompts, valid_prompts, per_question_results,
                 final_prompt, structured, result, err, responses, metric_results>>
  /\ UNCHANGED notEvalVars

\* the list run_stage returns once every prompt has been answered
StageResults(collected) == [some |-> TRUE, results |-> collected]

QuestionReturns(level) ==
  /\ pc = "fanout"
  /\ inflight.stage = "question"
  /\ LET collected == Append(responses, [q |-> inflight.q, level |-> level])
     IN /\ responses' = collected
        /\ valid_prompts' = Tail(valid_prompts)
        /\ IF Tail(valid_prompts) = <<>>
             THEN per_question_results' = StageResults(collected) /\ pc' = "final"
             ELSE UNCHANGED <<per_question_results, pc>>
  /\ Returned("question", inflight.q)
  /\ UNCHANGED <<inputs, context, prompts, final_prompt, structured, result, err,
                 metric_results>>
  /\ UNCHANGED notEvalVars

\* get_prompt as each class implements it.  difficulty needs a question and
\* grammatical_correctness a quiz; both then run validate_params on **params,
\* which holds per_question_results and context besides the caller's keywords.
\* The outcome is the exception raised, or NoErr when a prompt is returned.
ValidateParams(m, names) ==
  IF \E n \in names : n \notin Parameters(m)
    THEN [kind |-> "ValueError", names |-> "Unknown parameter", at |-> "final"]
    ELSE NoErr

GetPromptOutcome(m, declines) ==
  CASE m = "difficulty" ->
         IF question = 0
           THEN [kind |-> "ValueError", names |-> "DifficultyMetric", at |-> "final"]
           ELSE ValidateParams(m, params \cup {"per_question_results", "context"})
    [] m = "grammatical_correctness" ->
         IF ~quiz.some
           THEN [kind |-> "ValueError", names |-> "GrammaticMetric", at |-> "final"]
           ELSE ValidateParams(m, params \cup {"per_question_results", "context"})
    [] OTHER ->
         IF declines
           THEN [kind |-> "ValueError", names |-> m, at |-> "final"]
           ELSE NoErr

\* get_prompt is called without the fan-out results
FinalPromptArgsDropsResults == [built |-> TRUE, context |-> context,
                                per_question_results |-> NoResults]

\* what evaluate passes to get_prompt (base.py 181-188)
FinalPromptArgs == [built |-> TRUE, context |-> context,
                    per_question_results |-> per_question_results]

\* base.py 181-189: build the final prompt and send it
BuildFinalPrompt(declines) ==
  /\ pc = "final"
  /\ inflight = NoCall
  /\ LET outcome == GetPromptOutcome(metric, declines)
         args == FinalPromptArgs
     IN IF outcome # NoErr
          THEN /\ pc' = "raised"
               /\ err' = outcome
               /\ log' = Append(log, Event("build", "final", 0, args.context,
                                            args.per_question_results))
               /\ UNCHANGED <<final_prompt, inflight>>
          ELSE /\ final_prompt' = args
               /\ pc' = "final_wait"
               /\ inflight' = [stage |-> "final", q |-> 0]
               /\ log' = log \o <<Event("build", "final", 0, args.context,
                                         args.per_question_results),
                                  Event("issue", "final", 0, NoContext, NoResults)>>
               /\ UNCHANGED err
  /\ UNCHANGED <<inputs, context, prompts, valid_prompts, per_question_results,
                 structured, result, responses, metric_results>>
  /\ UNCHANGED notEvalVars

\* base.py 208-213: the score is read from the key "score" and range-checked
ScoreInRange(score) == 0 <= score /\ score <= 10000

\* the score is returned without the range check
ParseStructuredResponseNoRange(response) ==
  IF ~response.hasScore
    THEN [ok |-> FALSE, score |-> 0, kind |-> "KeyError"]
    ELSE [ok |-> TRUE, score |-> response.score, kind |-> "none"]

ParseStructuredResponse(response) ==
  IF ~response.hasScore
    THEN [ok |-> FALSE, score |-> 0, kind |-> "KeyError"]
    ELSE IF ~ScoreInRange(response.score)
      THEN [ok |-> FALSE, score |-> response.score, kind |-> "ValueError"]
      ELSE [ok |-> TRUE, score |-> response.score, kind |-> "none"]

\* base.py 189-200: the final response is parsed and the result returned
FinalReturns(response) ==
  /\ pc = "final_wait"
  /\ structured' = response
  /\ Returned("final", 0)
  /\ LET parsed == ParseStructuredResponse(response)
     IN IF parsed.ok
          THEN /\ result' = [some |-> TRUE, score |-> parsed.score,
                             raw_response |-> response]
               /\ pc' = "done"
               /\ UNCHANGED err
          ELSE /\ Raise(parsed.kind, "score", "parse")
               /\ UNCHANGED result
  /\ UNCHANGED <<inputs, context, prompts, valid_prompts, per_question_results,
                 final_prompt, responses, metric_results>>
  /\ UNCHANGED notEvalVars

\* run_stage catches the exception of a call and goes on with the stage
LLMRaisesSwallowed ==
  /\ inflight # NoCall
  /\ pc # "raised"
  /\ err' = [kind |-> "LLMError", names |-> inflight.stage, at |-> inflight.stage]
  /\ UNCHANGED <<pc, inputs, context, prompts, valid_prompts, per_question_results,
                 final_prompt, structured, result, inflight, responses, log,
                 metric_results>>
  /\ UNCHANGED notEvalVars

\* generate_structured raises: nothing in evaluate or run_stage catches it
LLMRaises ==
  /\ inflight # NoCall
  /\ Raise("LLMError", inflight.stage, inflight.stage)
  /\ UNCHANGED <<inputs, context, prompts, valid_prompts, per_question_results,
                 final_prompt, structured, result, inflight, responses, log,
                 metric_results>>
  /\ UNCHANGED notEvalVars

\* ------------------------------------------------------------ the runner
\* result.py 34-37: MetricResult.__post_init__
MetricResultAccepts(score) == 0 <= score /\ score <= 10000

\* benchmark.py 149-168, 180-203: a returned score becomes a MetricResult
\* appended to metric_results; any exception is logged and nothing is added.
\* The evaluation's locals are gone once evaluate has returned.
Record ==
  /\ pc \in {"done", "raised"}
  /\ metric_results' =
       IF pc = "done" /\ MetricResultAccepts(result.score)
         THEN Append(metric_results, result.score)
         ELSE metric_results
  /\ pc' = "idle"
  /\ metric' = "difficulty"
  /\ llm_client' = FALSE
  /\ quiz' = None
  /\ question' = 0
  /\ source_text' = "None"
  /\ params' = {}
  /\ err' = NoErr
  /\ Fresh
  /\ UNCHANGED notEvalVars

\* --------------------------------------------- coverage: the score phase
\* broad raises the breadth weight and leaves the depth weight where it was
GetWeightsBroadOnlyRaises(granularity) ==
  IF granularity = "broad"
    THEN [breadth |-> 40, depth |-> 30, balance |-> 20, critical |-> 20]
  ELSE IF granularity = "detailed"
    THEN [breadth |-> 20, depth |-> 40, balance |-> 20, critical |-> 20]
  ELSE [breadth |-> 30, depth |-> 30, balance |-> 20, critical |-> 20]

\* coverage.py 97-103
GetWeights(granularity) ==
  IF granularity = "broad"
    THEN [breadth |-> 40, depth |-> 20, balance |-> 20, critical |-> 20]
  ELSE IF granularity = "detailed"
    THEN [breadth |-> 20, depth |-> 40, balance |-> 20, critical |-> 20]
  ELSE [breadth |-> 30, depth |-> 30, balance |-> 20, critical |-> 20]

\* coverage.py 77-86: the default of the granularity parameter
DefaultGranularity == "balanced"

\* base.py 273-297: params.get(param_name, param_def.default)
GetParamValue(given) == IF given = "None" THEN DefaultGranularity ELSE given

\* round(num_topics * 1.5): Python rounds a half to the even neighbour
IdealQuestions(num_topics) ==
  IF num_topics % 2 = 0 THEN (3 * num_topics) \div 2
  ELSE LET low == (3 * num_topics - 1) \div 2
       IN IF low % 2 = 0 THEN low ELSE low + 1

\* coverage.py 178-190: what the builder reads from the accumulated outputs
SourceTopics(inp) == IF inp.extract.some THEN inp.extract.topics ELSE 0

SourceCritical(inp) == IF inp.extract.some THEN inp.extract.critical ELSE 0

MapResults(inp) == IF inp.map.some THEN inp.map.results ELSE <<>>

\* coverage.py 187-190: the exception the builder raises, "none" otherwise
ScorePromptError(inp) ==
  IF ~inp.quiz.some THEN "requires a quiz"
  ELSE IF SourceTopics(inp) = 0 \/ MapResults(inp) = <<>>
    THEN "requires outputs from extract and map phases"
  ELSE "none"

\* coverage.py 192-267: the values the prompt text is built from.  Line 192
\* calls get_param_value("granularity") with no **params.
ScorePrompt(inp, given) ==
  LET granularity == GetParamValue("None")
  IN [built |-> TRUE,
      granularity |-> granularity,
      weights |-> GetWeights(granularity),
      num_questions |-> Len(inp.quiz.questions),
      num_topics |-> SourceTopics(inp),
      ideal_questions |-> IdealQuestions(SourceTopics(inp)),
      levels |-> MapResults(inp),
      critical_fixed |-> SourceCritical(inp) > 0,
      critical_divisor |-> IF SourceCritical(inp) > 0 THEN SourceCritical(inp) ELSE 5]

RECURSIVE SumSeq(_)
SumSeq(seq) == IF seq = <<>> THEN 0 ELSE Head(seq) + SumSeq(Tail(seq))

\* coverage.py 231-234: the depth score the prompt prescribes, in hundredths:
\* (sum of the listed levels / num_questions / 3.0) x depth weight
PrescribedDepth(p) ==
  (SumSeq(p.levels) * p.weights.depth * 100) \div (p.num_questions * 3)

\* the depth field is declared without its bounds
SubScoresValidSkipsDepth(r) ==
  \A f \in {"breadth", "balance", "critical"} : 0 <= r[f] /\ r[f] <= 10000

\* coverage.py 9-13: SubScores, every field in [0, 100]
SubScoresValid(r) ==
  \A f \in {"breadth", "depth", "balance", "critical"} : 0 <= r[f] /\ r[f] <= 10000

Abs(x) == IF x < 0 THEN -x ELSE x

\* coverage.py 53-63: final_score in [0, 100] and within 1.0 of the sum
FinalScoreMatchesSubScores(r) ==
  ~(Abs(r.final_score - (r.breadth + r.depth + r.balance + r.critical)) > 100)

\* coverage.py 43-63: validation against OverallCoverageResponse
SchemaAccepts(r) ==
  /\ SubScoresValid(r)
  /\ 0 <= r.final_score /\ r.final_score <= 10000
  /\ FinalScoreMatchesSubScores(r)

\* round(score, 1): the nearest tenth; which neighbour a half goes to depends
\* on the binary value of the float, so both are possible here
RoundedToTenth(h) ==
  LET r == h % 10
  IN IF r < 5 THEN {h - r} ELSE IF r > 5 THEN {h - r + 10} ELSE {h - r, h - r + 10}

\* evaluate(..., granularity = g) has reached the score phase with this input
ScorePhaseBegins(g, inp) ==
  /\ cov_pc = "idle"
  /\ granularity_param' = g
  /\ phase_input' = inp
  /\ cov_pc' = "build"
  /\ score_prompt' = NoScorePrompt
  /\ score_response' = NoScoreResponse
  /\ coverage_score' = -1
  /\ cov_err' = "none"
  /\ UNCHANGED <<weights_call, notCovVars>>

\* coverage.py 177-267: _build_score_prompt
BuildScorePrompt ==
  /\ cov_pc = "build"
  /\ IF ScorePromptError(phase_input) # "none"
       THEN /\ cov_pc' = "raised"
            /\ cov_err' = ScorePromptError(phase_input)
            /\ UNCHANGED score_prompt
       ELSE /\ cov_pc' = "await"
            /\ score_prompt' = ScorePrompt(phase_input, granularity_param)
            /\ UNCHANGED cov_err
  /\ UNCHANGED <<granularity_param, phase_input, score_response, coverage_score,
                 weights_call, notCovVars>>

\* the structured response is validated against OverallCoverageResponse
\* where it enters (openai_compatible.py 118-126)
ScoreResponseArrives(r) ==
  /\ cov_pc = "await"
  /\ score_response' = r
  /\ IF SchemaAccepts(r)
       THEN cov_pc' = "parse" /\ UNCHANGED cov_err
       ELSE cov_pc' = "raised" /\ cov_err' = "ValidationError"
  /\ UNCHANGED <<granularity_param, phase_input, score_prompt, coverage_score,
                 weights_call, notCovVars>>

\* coverage.py 269-287: parse_score
ParseScore(rounded) ==
  /\ cov_pc = "parse"
  /\ rounded \in RoundedToTenth(score_response.final_score)
  /\ IF 0 <= score_response.final_score /\ score_response.final_score <= 10000
       THEN cov_pc' = "done" /\ coverage_score' = rounded /\ UNCHANGED cov_err
       ELSE cov_pc' = "raised" /\ cov_err' = "ValueError" /\ UNCHANGED coverage_score
  /\ UNCHANGED <<granularity_param, phase_input, score_prompt, score_response,
                 weights_call, notCovVars>>

\* the score phase is over
ScorePhaseEnds ==
  /\ cov_pc \in {"done", "raised"}
  /\ cov_pc' = "idle"
  /\ granularity_param' = "None"
  /\ phase_input' = NoPhaseInput
  /\ score_prompt' = NoScorePrompt
  /\ score_response' = NoScoreResponse
  /\ coverage_score' = -1
  /\ cov_err' = "none"
  /\ UNCHANGED <<weights_call, notCovVars>>

\* CoverageMetric._get_weights(g), a static method
WeightsSelected(g) ==
  /\ cov_pc = "idle"
  /\ weights_call' = [granularity |-> g, weights |-> GetWeights(g)]
  /\ UNCHANGED <<cov_pc, granularity_param, phase_input, score_prompt,
                 score_response, coverage_score, cov_err, notCovVars>>

NextCoverage ==
  \/ \E g \in GranularityParams, inp \in PhaseInputs : ScorePhaseBegins(g, inp)
  \/ BuildScorePrompt
  \/ \E r \in ScoreResponses : ScoreResponseArrives(r)
  \/ \E rounded \in RoundedToTenth(score_response.final_score) : ParseScore(rounded)
  \/ ScorePhaseEnds
  \/ \E g \in Granularities : WeightsSelected(g)

SpecCoverage == Init /\ [][NextCoverage]_vars

Next ==
  \/ \E m \in Metrics, l \in BOOLEAN, qz \in Quizzes, qn \in QuestionArgs,
        st \in SourceTexts, ps \in ParamSets : Construct(m, l, qz, qn, st, ps)
  \/ Entry
  \/ GenerateContext
  \/ \E data \in ContextData : ContextReturns(data)
  \/ \E skipped \in SUBSET QuestionIds : BuildQuestionPrompts(skipped)
  \/ IssueQuestionCall
  \/ \E level \in Levels : QuestionReturns(level)
  \/ \E declines \in BOOLEAN : BuildFinalPrompt(declines)
  \/ \E response \in FinalResponses : FinalReturns(response)
  \/ LLMRaises
  \/ Record

Spec == Init /\ [][Next]_vars

\* --------------------------------------------------------- the aggregator
\* MetricResult as the aggregator reads it: metric_name, evaluator_model,
\* quiz_id, question_id ("None" for a quiz-level metric) and score.  A
\* question-level metric carries a question id, a quiz-level metric none.
MetricNames == {"difficulty", "difficulty_v2"}

EvaluatorModels == {"mock", "v2_mock"}

QuestionIdsOf(name) == IF name = "difficulty" THEN {"q1", "q2"} ELSE {"None"}

Scores == {4000, 6000}

QuizIds == {"quiz_1", "quiz_2"}

MetricResults ==
  {[metric_name |-> n, evaluator_model |-> e, quiz_id |-> z,
    question_id |-> q, score |-> sc] :
     n \in MetricNames, e \in EvaluatorModels, z \in QuizIds,
     q \in {"q1", "q2", "None"}, sc \in Scores}

\* the evaluations the runs are drawn from: difficulty under mock with both
\* scores and both questions, difficulty under v2_mock, difficulty_v2 under
\* mock
EvaluationsDrawn ==
  {<<"difficulty", "mock", "q1", 4000>>, <<"difficulty", "mock", "q1", 6000>>,
   <<"difficulty", "mock", "q2", 4000>>, <<"difficulty", "v2_mock", "q1", 4000>>,
   <<"difficulty_v2", "mock", "None", 6000>>}

MetricResultInputs ==
  {m \in MetricResults :
     /\ m.question_id \in QuestionIdsOf(m.metric_name)
     /\ <<m.metric_name, m.evaluator_model, m.question_id, m.score>> \in EvaluationsDrawn}

RECURSIVE AllMetrics(_)
\* for result in results: for metric in result.metrics
AllMetrics(results) ==
  IF results = <<>> THEN <<>>
  ELSE Head(results).metrics \o AllMetrics(Tail(results))

RECURSIVE ExtendInFront(_, _, _)
\* the new scores are put in front of the ones already under the key
ExtendInFront(d, key, scores) ==
  IF d = <<>> THEN <<[key |-> key, scores |-> scores]>>
  ELSE IF Head(d).key = key
    THEN <<[key |-> key, scores |-> scores \o Head(d).scores]>> \o Tail(d)
    ELSE <<Head(d)>> \o ExtendInFront(Tail(d), key, scores)

\* a dict(list) in insertion order: a sequence of [key, scores] entries
RECURSIVE AppendTo(_, _, _)
\* d[key].extend(scores), the key added last when it is new
AppendTo(d, key, scores) ==
  IF d = <<>> THEN <<[key |-> key, scores |-> scores]>>
  ELSE IF Head(d).key = key
    THEN <<[key |-> key, scores |-> Head(d).scores \o scores]>> \o Tail(d)
    ELSE <<Head(d)>> \o AppendTo(Tail(d), key, scores)

\* aggregator.py 42-47
GroupKey(m) ==
  <<m.metric_name, m.evaluator_model, m.quiz_id,
    IF m.question_id \in {"None", ""} THEN "quiz_level" ELSE m.question_id>>

RECURSIVE GroupedFrom(_, _)
GroupedFrom(d, ms) ==
  IF ms = <<>> THEN d
  ELSE GroupedFrom(AppendTo(d, GroupKey(Head(ms)), <<Head(ms).score>>), Tail(ms))

\* aggregator.py 38-48
GroupedScores(results) == GroupedFrom(<<>>, AllMetrics(results))

RECURSIVE OverallFrom(_, _)
OverallFrom(d, grouped) ==
  IF grouped = <<>> THEN d
  ELSE OverallFrom(AppendTo(d, <<Head(grouped).key[1], Head(grouped).key[2]>>,
                            Head(grouped).scores),
                   Tail(grouped))

\* aggregator.py 54-57
OverallGroups(results) == OverallFrom(<<>>, GroupedScores(results))

\* aggregator.py 60: f"{metric_name}_{evaluator_model}"
AggKey(metric_name, evaluator_model) == metric_name \o "_" \o evaluator_model

\* ------------------------------------------------------- the statistics
\* mean and median are exact fractions [num, den]; std_dev is in hundredths,
\* cut off below the last digit.
RECURSIVE Insert(_, _)
Insert(x, sorted) ==
  IF sorted = <<>> THEN <<x>>
  ELSE IF x <= Head(sorted) THEN <<x>> \o sorted
  ELSE <<Head(sorted)>> \o Insert(x, Tail(sorted))

RECURSIVE Sorted(_)
Sorted(scores) == IF scores = <<>> THEN <<>> ELSE Insert(Head(scores), Sorted(Tail(scores)))

\* statistics.mean
Mean(scores) == [num |-> SumSeq(scores), den |-> Len(scores)]

\* the upper of the two middle values stands for the median of an even count
MedianUpperMiddle(scores) ==
  [num |-> Sorted(scores)[(Len(scores) \div 2) + 1], den |-> 1]

\* statistics.median
Median(scores) ==
  LET n == Len(scores)
      data == Sorted(scores)
  IN IF n % 2 = 1
       THEN [num |-> data[(n \div 2) + 1], den |-> 1]
       ELSE [num |-> data[n \div 2] + data[(n \div 2) + 1], den |-> 2]

RECURSIVE Isqrt(_, _, _)
\* the largest k in lo..hi with k * k <= n
Isqrt(n, lo, hi) ==
  IF lo >= hi THEN lo
  ELSE LET mid == (lo + hi + 1) \div 2
       IN IF mid * mid <= n THEN Isqrt(n, mid, hi) ELSE Isqrt(n, lo, mid - 1)

SumOfSquares(scores) == SumSeq([i \in DOMAIN scores |-> scores[i] * scores[i]])

\* statistics.stdev: the square root of the sample variance
SampleStdev(scores) ==
  LET n == Len(scores)
      variance == (n * SumOfSquares(scores) - SumSeq(scores) * SumSeq(scores))
                    \div (n * (n - 1))
  IN Isqrt(variance, 0, 10000)

\* a single score is taken as its own deviation
StdDevOfOneIsTheScore(scores) ==
  IF Len(scores) > 1 THEN SampleStdev(scores) ELSE scores[1]

\* aggregator.py 67, 135: statistics.stdev(scores) if len(scores) > 1 else 0.0
StdDev(scores) == IF Len(scores) > 1 THEN SampleStdev(scores) ELSE 0

\* min(scores), max(scores)
Min(scores) == CHOOSE x \in {scores[i] : i \in DOMAIN scores} :
                 \A i \in DOMAIN scores : x <= scores[i]

Max(scores) == CHOOSE x \in {scores[i] : i \in DOMAIN scores} :
                 \A i \in DOMAIN scores : x >= scores[i]

\* aggregator.py 62-71, 130-139 and result.py 102-130
MetricAggregation(metric_name, evaluator_model, scores) ==
  [metric_name |-> metric_name,
   evaluator_model |-> evaluator_model,
   mean |-> Mean(scores),
   median |-> Median(scores),
   std_dev |-> StdDev(scores),
   min |-> Min(scores),
   max |-> Max(scores),
   per_run_scores |-> scores,
   num_runs |-> Len(scores)]

\* a dict built by assigning d[key(e)] = value(e) for the entries in order:
\* a later entry with the same key replaces the earlier one
LastWithKey(entries, k) ==
  LET at == {i \in DOMAIN entries : entries[i].dict_key = k}
  IN entries[CHOOSE i \in at : \A j \in at : j <= i]

DictOf(entries) ==
  LET keys == {entries[i].dict_key : i \in DOMAIN entries}
  IN IF keys = {} THEN <<>>
     ELSE [k \in keys |-> LastWithKey(entries, k).value]

\* ---------------------------------------------------- aggregator calls
\* the empty-input error is raised whenever no metric result is present
AggregateRaisesWithoutMetrics(results) == AllMetrics(results) = <<>>

\* aggregator.py 29-30: if not results: raise ValueError
AggregateRaises(results) == results = <<>>

\* aggregator.py 59-71: one MetricAggregation per overall group, stored
\* under its agg_key
Aggregations(results) ==
  LET groups == OverallGroups(results)
  IN DictOf([i \in DOMAIN groups |->
       [dict_key |-> AggKey(groups[i].key[1], groups[i].key[2]),
        value |-> MetricAggregation(groups[i].key[1], groups[i].key[2],
                                    groups[i].scores)]])

RECURSIVE ByEvaluatorFrom(_, _, _)
ByEvaluatorFrom(d, ms, metric_name) ==
  IF ms = <<>> THEN d
  ELSE IF Head(ms).metric_name = metric_name
    THEN ByEvaluatorFrom(AppendTo(d, Head(ms).evaluator_model, <<Head(ms).score>>),
                         Tail(ms), metric_name)
    ELSE ByEvaluatorFrom(d, Tail(ms), metric_name)

\* aggregator.py 119-141: aggregate_by_metric
AggregationsByMetric(results, metric_name) ==
  LET groups == ByEvaluatorFrom(<<>>, AllMetrics(results), metric_name)
  IN DictOf([i \in DOMAIN groups |->
       [dict_key |-> groups[i].key,
        value |-> MetricAggregation(metric_name, groups[i].key, groups[i].scores)]])

\* the run counter counts the records
TotalRunsCountsRecords(results) == Len(results)

\* aggregator.py 35: total_runs = len(set(r.run_number for r in results))
TotalRuns(results) == Cardinality({results[i].run_number : i \in DOMAIN results})

\* aggregator.py 34: quiz_ids = list(set(r.quiz_id for r in results)), the
\* ids in the iteration order of the set, which the language leaves open
QuizIdLists(results) ==
  LET ids == {results[i].quiz_id : i \in DOMAIN results}
  IN {l \in [1..Cardinality(ids) -> ids] : \A q \in ids : \E i \in DOMAIN l : l[i] = q}

NoSummary == [total_runs |-> 0, quiz_ids |-> <<>>]

\* the call empties the list it was given
ResultsConsumed(results) == <<>>

\* aggregator.py 32-57: the results are only iterated and their fields only
\* read; the lists that are extended are local to the call
ResultsAfterAggregate(results) == results

\* every record is filed under the first quiz
QuizKeyIsFirstQuiz(record) == "quiz_1"

\* aggregator.py 97-98: by_quiz[result.quiz_id].append(result)
QuizKey(record) == record.quiz_id

RECURSIVE ByQuizFrom(_, _)
\* aggregator.py 96-98: the records of each quiz, in input order
ByQuizFrom(d, results) ==
  IF results = <<>> THEN d
  ELSE ByQuizFrom(AppendTo(d, QuizKey(Head(results)), <<Head(results)>>), Tail(results))

\* aggregator.py 100-103: aggregate_by_quiz, one aggregate call per quiz on
\* the records filed under it (results: the list that call was given)
AggregationsByQuiz(results) ==
  LET groups == ByQuizFrom(<<>>, results)
  IN DictOf([i \in DOMAIN groups |->
       [dict_key |-> groups[i].key,
        value |-> [results |-> groups[i].scores,
                   aggregations |-> Aggregations(groups[i].scores),
                   total_runs |-> TotalRuns(groups[i].scores)]]])

\* result.py 8-37, 59-99: the scores a group retained, handed back as
\* results of the group's metric and evaluator, either all in one record
\* or one record per score
ScoresAsResults(a, per_record) ==
  LET ms == [i \in DOMAIN a.per_run_scores |->
               [metric_name |-> a.metric_name, evaluator_model |-> a.evaluator_model,
                quiz_id |-> "quiz_1", question_id |-> "None",
                score |-> a.per_run_scores[i]]]
  IN IF per_record
       THEN [i \in DOMAIN ms |->
               [quiz_id |-> "quiz_1", run_number |-> i, metrics |-> <<ms[i]>>]]
       ELSE <<[quiz_id |-> "quiz_1", run_number |-> 1, metrics |-> ms]>>

\* benchmark.py 241-252: an evaluation that returned adds its MetricResult
\* to the list of the run in progress; all results of a run are of its quiz
EvaluationRecorded(m) ==
  /\ agg_call = NoAggCall
  /\ Len(benchmark_results) < MaxRuns
  /\ Len(AllMetrics(benchmark_results)) + Len(run_metrics) < MaxScores
  /\ run_metrics # <<>> => m.quiz_id = run_metrics[1].quiz_id
  /\ run_metrics' = Append(run_metrics, m)
  /\ UNCHANGED <<benchmark_results, agg_call, aggregations, agg_err,
                 agg_input, agg_previous, agg_summary, by_quiz, notAggVars>>

\* benchmark.py 104-111, 256-266: the evaluation of a quiz ends with a
\* BenchmarkResult that holds its MetricResults; run_number counts the runs
\* of that quiz
RunCompletes(quiz_id) ==
  /\ agg_call = NoAggCall
  /\ Len(benchmark_results) < MaxRuns
  /\ run_metrics # <<>> => quiz_id = run_metrics[1].quiz_id
  /\ benchmark_results' = Append(benchmark_results,
       [quiz_id |-> quiz_id,
        run_number |-> 1 + Cardinality({i \in DOMAIN benchmark_results :
                                          benchmark_results[i].quiz_id = quiz_id}),
        metrics |-> run_metrics])
  /\ run_metrics' = <<>>
  /\ UNCHANGED <<agg_call, aggregations, agg_err,
                 agg_input, agg_previous, agg_summary, by_quiz, notAggVars>>

\* the return value or the exception of aggregate(results, benchmark_name)
AggregateReturns(results) ==
  IF AggregateRaises(results)
    THEN agg_err' = "ValueError" /\ aggregations' = <<>> /\ agg_summary' = NoSummary
    ELSE /\ agg_err' = "none"
         /\ aggregations' = Aggregations(results)
         /\ \E ids \in QuizIdLists(results) :
              agg_summary' = [total_runs |-> TotalRuns(results), quiz_ids |-> ids]

\* ResultsAggregator.aggregate(results, benchmark_name)
Aggregate ==
  /\ agg_call = NoAggCall
  /\ run_metrics = <<>>
  /\ agg_call' = [fn |-> "aggregate", metric_name |-> ""]
  /\ agg_input' = benchmark_results
  /\ AggregateReturns(benchmark_results)
  /\ benchmark_results' = ResultsAfterAggregate(benchmark_results)
  /\ UNCHANGED <<run_metrics, agg_previous, by_quiz, notAggVars>>

\* a second aggregate call on the list the first one was given
AggregateAgain ==
  /\ agg_call.fn = "aggregate"
  /\ agg_err = "none"
  /\ agg_call' = [fn |-> "aggregate_again", metric_name |-> ""]
  /\ agg_previous' = aggregations
  /\ AggregateReturns(benchmark_results)
  /\ benchmark_results' = ResultsAfterAggregate(benchmark_results)
  /\ UNCHANGED <<run_metrics, agg_input, by_quiz, notAggVars>>

\* aggregate on the scores that the group stored under agg_key retained
Reaggregate(agg_key, per_record) ==
  /\ agg_call.fn = "aggregate"
  /\ agg_err = "none"
  /\ agg_key \in DOMAIN aggregations
  /\ agg_call' = [fn |-> "reaggregate", metric_name |-> ""]
  /\ agg_previous' = [k \in {agg_key} |-> aggregations[agg_key]]
  /\ agg_input' = ScoresAsResults(aggregations[agg_key], per_record)
  /\ AggregateReturns(ScoresAsResults(aggregations[agg_key], per_record))
  /\ UNCHANGED <<benchmark_results, run_metrics, by_quiz, notAggVars>>

\* ResultsAggregator.aggregate_by_quiz(results)
AggregateByQuiz ==
  /\ agg_call = NoAggCall
  /\ run_metrics = <<>>
  /\ agg_call' = [fn |-> "aggregate_by_quiz", metric_name |-> ""]
  /\ agg_input' = benchmark_results
  /\ agg_err' = "none"
  /\ by_quiz' = AggregationsByQuiz(benchmark_results)
  /\ UNCHANGED <<benchmark_results, run_metrics, aggregations, agg_previous,
                 agg_summary, notAggVars>>

\* ResultsAggregator.aggregate_by_metric(results, metric_name)
AggregateByMetric(metric_name) ==
  /\ agg_call = NoAggCall
  /\ run_metrics = <<>>
  /\ agg_call' = [fn |-> "aggregate_by_metric", metric_name |-> metric_name]
  /\ agg_input' = benchmark_results
  /\ agg_err' = "none"
  /\ aggregations' = AggregationsByMetric(benchmark_results, metric_name)
  /\ UNCHANGED <<benchmark_results, run_metrics, agg_previous, agg_summary,
                 by_quiz, notAggVars>>

\* the caller is done with what the call returned or raised
AggregatorCallEnds ==
  /\ agg_call # NoAggCall
  /\ agg_call' = NoAggCall
  /\ aggregations' = <<>>
  /\ agg_err' = "none"
  /\ agg_input' = <<>>
  /\ agg_previous' = <<>>
  /\ agg_summary' = NoSummary
  /\ by_quiz' = <<>>
  /\ UNCHANGED <<benchmark_results, run_metrics, notAggVars>>

NextAggregate ==
  \/ \E m \in MetricResultInputs : EvaluationRecorded(m)
  \/ \E quiz_id \in QuizIds : RunCompletes(quiz_id)
  \/ Aggregate
  \/ AggregateAgain
  \/ \E agg_key \in DOMAIN aggregations, per_record \in BOOLEAN :
       Reaggregate(agg_key, per_record)
  \/ AggregateByQuiz
  \/ \E name \in MetricNames : AggregateByMetric(name)
  \/ AggregatorCallEnds

SpecAggregate == Init /\ [][NextAggregate]_vars

\* ------------------------------------------------------- the registry
\* every registration adds an entry
DictAppend(d, name, c) == Append(d, [name |-> name, class |-> c])

\* registry.py 33: cls._metrics[metric_name] = metric_class; the class
\* under a name already present is replaced where it stands
DictSet(d, name, c) ==
  IF \E i \in DOMAIN d : d[i].name = name
    THEN [i \in DOMAIN d |-> IF d[i].name = name THEN [name |-> name, class |-> c] ELSE d[i]]
    ELSE Append(d, [name |-> name, class |-> c])

\* registry.py 45: cls._metrics.get(metric_name); "None" when absent
DictGet(d, name) ==
  IF \E i \in DOMAIN d : d[i].name = name
    THEN (CHOOSE e \in {d[i] : i \in DOMAIN d} : e.name = name).class
    ELSE "None"

\* registry.py 26-30: what register raises: ValueError for a class that
\* does not inherit from BaseMetric, TypeError from metric_class() for a
\* class that leaves get_prompt abstract
RegisterRaises(c) ==
  IF c \notin MetricClasses THEN "ValueError"
  ELSE IF ~DefinesGetPrompt(NameOfClass(c)) THEN "TypeError"
  ELSE "none"

\* MetricRegistry.register(metric_class)
Register(c) ==
  /\ reg_call' = [op |-> "register", arg |-> c]
  /\ reg_before' = reg_metrics
  /\ reg_err' = RegisterRaises(c)
  /\ reg_result' = NoRegResult
  /\ IF RegisterRaises(c) = "none"
       THEN /\ reg_metrics' = DictSet(reg_metrics, NameOfClass(c), c)
            /\ reg_listed' = reg_listed \cup {NameOfClass(c)}
       ELSE UNCHANGED <<reg_metrics, reg_listed>>
  /\ UNCHANGED notRegVars

\* MetricRegistry.create(metric_name)
Create(metric_name) ==
  /\ reg_call' = [op |-> "create", arg |-> metric_name]
  /\ reg_before' = reg_metrics
  /\ IF DictGet(reg_metrics, metric_name) = "None"
       THEN reg_err' = "ValueError" /\ reg_result' = NoRegResult
       ELSE /\ reg_err' = "none"
            /\ reg_result' = [names |-> <<>>,
                              instance |-> NameOfClass(DictGet(reg_metrics, metric_name))]
  /\ UNCHANGED <<reg_metrics, reg_listed, notRegVars>>

\* MetricRegistry.list_metrics()
ListMetrics ==
  /\ reg_call' = [op |-> "list_metrics", arg |-> ""]
  /\ reg_before' = reg_metrics
  /\ reg_err' = "none"
  /\ reg_result' = [names |-> [i \in DOMAIN reg_metrics |-> reg_metrics[i].name],
                    instance |-> ""]
  /\ UNCHANGED <<reg_metrics, reg_listed, notRegVars>>

\* MetricRegistry.clear()
Clear ==
  /\ reg_call' = [op |-> "clear", arg |-> ""]
  /\ reg_before' = reg_metrics
  /\ reg_err' = "none"
  /\ reg_result' = NoRegResult
  /\ reg_metrics' = <<>>
  /\ reg_listed' = {}
  /\ UNCHANGED notRegVars

NextRegistry ==
  \/ \E c \in MetricClasses \cup {"NotAMetric"} : Register(c)
  \/ \E metric_name \in Metrics \cup {"missing_metric"} : Create(metric_name)
  \/ ListMetrics
  \/ Clear

SpecRegistry == Init /\ [][NextRegistry]_vars

\* --------------------------------------------------------- the runner
RECURSIVE Flatten(_)
\* the concatenation of a sequence of sequences: what nested loops visit
Flatten(seqs) == IF seqs = <<>> THEN <<>> ELSE Head(seqs) \o Flatten(Tail(seqs))

\* config.py 109-115: get_enabled_metrics
EnabledMetrics(config) == SelectSeq(config.metrics, LAMBDA mc : mc.enabled)

\* every metric is evaluated question by question
QuestionsEvaluatedPerQuestion(name, a_quiz) == a_quiz.questions

\* benchmark.py 238-252: a question-level metric is evaluated once per
\* question, a quiz-level metric once, with no question
QuestionsEvaluated(name, a_quiz) ==
  IF Scope(name) = "question_level" THEN a_quiz.questions ELSE <<"None">>

\* benchmark.py 228-252: the evaluate calls for one metric configuration;
\* a metric that is not initialised and an evaluator that is not
\* initialised are skipped
EvaluationsOfMetric(mc, metric_index, a_quiz) ==
  IF mc.name \notin RegisteredMetrics THEN <<>>
  ELSE Flatten([ei \in DOMAIN mc.evaluators |->
         IF mc.evaluators[ei] \notin InitialisedEvaluators THEN <<>>
         ELSE [k \in DOMAIN QuestionsEvaluated(mc.name, a_quiz) |->
                 [metric_name |-> mc.name, metric_index |-> metric_index,
                  evaluator_name |-> mc.evaluators[ei], evaluator_index |-> ei,
                  question_index |-> k,
                  question_id |-> QuestionsEvaluated(mc.name, a_quiz)[k]]]])

\* benchmark.py 221-252: the evaluate calls of _evaluate_quiz, in order
EvaluationsOfQuiz(config, a_quiz) ==
  Flatten([mi \in DOMAIN EnabledMetrics(config) |->
             EvaluationsOfMetric(EnabledMetrics(config)[mi], mi, a_quiz)])

CurrentQuiz == runner_config.quizzes[quiz_index]

CurrentEvaluations == EvaluationsOfQuiz(runner_config, CurrentQuiz)

Failures == Cardinality({i \in DOMAIN evaluate_calls : evaluate_calls[i].outcome = "raised"})

\* the evaluate call e of the quiz in progress, with how it ended
EvaluateCall(e, outcome) ==
  [run_number |-> run_number, quiz_id |-> CurrentQuiz.quiz_id,
   metric_index |-> e.metric_index, metric_name |-> e.metric_name,
   evaluator_index |-> e.evaluator_index, evaluator_name |-> e.evaluator_name,
   question_index |-> e.question_index, question_id |-> e.question_id,
   outcome |-> outcome]

\* benchmark.py 155-164, 189-198: the MetricResult of an evaluation
MetricResultOf(e, a_quiz) ==
  [metric_name |-> e.metric_name, evaluator_model |-> ModelOf(e.evaluator_name),
   quiz_id |-> a_quiz.quiz_id, question_id |-> e.question_id,
   score |-> JudgedScore(e.evaluator_name)]

\* BenchmarkRunner(config), with the quizzes that run will be given
RunnerConstructed(config) ==
  /\ runner_pc = "none"
  /\ runner_config' = config
  /\ runner_pc' = "constructed"
  /\ UNCHANGED <<run_number, quiz_index, eval_index, quiz_metric_results,
                 all_results, evaluate_calls, run_aggregations, notRunnerVars>>

\* benchmark.py 95-101: run raises on an empty quiz list, otherwise the
\* loops begin with run 1 and the first quiz
RunStarts ==
  /\ runner_pc = "constructed"
  /\ IF runner_config.quizzes = <<>>
       THEN runner_pc' = "raised" /\ UNCHANGED <<run_number, quiz_index, eval_index>>
       ELSE /\ runner_pc' = "running"
            /\ run_number' = 1
            /\ quiz_index' = 1
            /\ eval_index' = 1
  /\ UNCHANGED <<runner_config, quiz_metric_results, all_results, evaluate_calls,
                 run_aggregations, notRunnerVars>>

\* benchmark.py 149-164, 181-198, 244-252: evaluate returns and its
\* MetricResult is appended
EvaluationReturns ==
  /\ runner_pc = "running"
  /\ LET evaluations == CurrentEvaluations
     IN /\ eval_index <= Len(evaluations)
        /\ evaluate_calls' =
             Append(evaluate_calls, EvaluateCall(evaluations[eval_index], "returned"))
        /\ quiz_metric_results' =
             Append(quiz_metric_results, MetricResultOf(evaluations[eval_index], CurrentQuiz))
  /\ eval_index' = eval_index + 1
  /\ UNCHANGED <<runner_config, runner_pc, run_number, quiz_index, all_results,
                 run_aggregations, notRunnerVars>>

\* the exception of evaluate leaves run
EvaluationRaisesEndsRun ==
  /\ runner_pc = "running"
  /\ Failures < MaxFailures
  /\ LET evaluations == CurrentEvaluations
     IN /\ eval_index <= Len(evaluations)
        /\ evaluate_calls' =
             Append(evaluate_calls, EvaluateCall(evaluations[eval_index], "raised"))
  /\ runner_pc' = "raised"
  /\ UNCHANGED <<runner_config, run_number, quiz_index, eval_index, quiz_metric_results,
                 all_results, run_aggregations, notRunnerVars>>

\* benchmark.py 166-168, 201-203: evaluate raises; the exception is logged,
\* None is returned and nothing is appended
EvaluationRaises ==
  /\ runner_pc = "running"
  /\ Failures < MaxFailures
  /\ LET evaluations == CurrentEvaluations
     IN /\ eval_index <= Len(evaluations)
        /\ evaluate_calls' =
             Append(evaluate_calls, EvaluateCall(evaluations[eval_index], "raised"))
  /\ eval_index' = eval_index + 1
  /\ UNCHANGED <<runner_config, runner_pc, run_number, quiz_index, quiz_metric_results,
                 all_results, run_aggregations, notRunnerVars>>

\* benchmark.py 254-266, 107-114: _evaluate_quiz returns its BenchmarkResult,
\* run appends it and goes on to the next quiz, the next run, or returns
QuizEvaluated ==
  /\ runner_pc = "running"
  /\ eval_index > Len(CurrentEvaluations)
  /\ all_results' = Append(all_results,
       [quiz_id |-> CurrentQuiz.quiz_id, run_number |-> run_number,
        metrics |-> quiz_metric_results])
  /\ quiz_metric_results' = <<>>
  /\ eval_index' = 1
  /\ IF quiz_index < Len(runner_config.quizzes)
       THEN quiz_index' = quiz_index + 1 /\ UNCHANGED <<run_number, runner_pc>>
       ELSE IF run_number < runner_config.runs
         THEN run_number' = run_number + 1 /\ quiz_index' = 1 /\ UNCHANGED runner_pc
         ELSE runner_pc' = "returned" /\ UNCHANGED <<run_number, quiz_index>>
  /\ UNCHANGED <<runner_config, evaluate_calls, run_aggregations, notRunnerVars>>

\* ResultsAggregator.aggregate on what run returned
RunnerAggregates ==
  /\ runner_pc = "returned"
  /\ runner_pc' = "aggregated"
  /\ run_aggregations' = Aggregations(all_results)
  /\ UNCHANGED <<runner_config, run_number, quiz_index, eval_index, quiz_metric_results,
                 all_results, evaluate_calls, notRunnerVars>>

NextRunner ==
  \/ \E config \in RunnerConfigs : RunnerConstructed(config)
  \/ RunStarts
  \/ EvaluationReturns
  \/ EvaluationRaises
  \/ QuizEvaluated
  \/ RunnerAggregates

SpecRunner == Init /\ [][NextRunner]_vars

\* ------------------------------------------- concurrent evaluations
\* Two evaluate calls of a metric written to the hook contract, each with a
\* source text and a quiz, so that each makes a context call, one call per
\* question and a final call.  The judge answers a prompt by what the prompt
\* holds: topics from the source text, a level from question and context, a
\* score (in hundredths) from context and levels.
Answer(call) ==
  CASE call.stage = "context" -> call.context
    [] call.stage = "question" -> ((call.q + call.context) % 3) + 1
    [] OTHER -> call.context * 1000 + SumSeq(call.levels) * 100

\* the context is taken from the evaluation running beside this one
ContextOfOther(p) == ce_context[3 - p]

\* base.py 165-186: context is a local of the call, handed to the
\* per-question prompts and to get_prompt
ContextHandedOn(p) == ce_context[p]

\* llm_client.generate_structured(prompt, schema) is entered
Sends(p, call) ==
  /\ ce_inflight' = [ce_inflight EXCEPT ![p] = call]
  /\ llm_calls' = Append(llm_calls, [evaluation |-> p, stage |-> call.stage])

\* base.py 161-165: evaluate is entered and generate_context sends its call
EvaluationStarts(p, input) ==
  /\ ce_pc[p] = "idle"
  /\ ce_input' = [ce_input EXCEPT ![p] = input]
  /\ Sends(p, [stage |-> "context", context |-> input.source_text, q |-> 0,
               levels |-> <<>>])
  /\ ce_pc' = [ce_pc EXCEPT ![p] = "context_wait"]
  /\ UNCHANGED <<ce_context, ce_prompts, ce_responses, ce_result, collected_results,
                 notConcVars>>

\* base.py 165: the context call returns
ContextAnswered(p) ==
  /\ ce_pc[p] = "context_wait"
  /\ ce_context' = [ce_context EXCEPT ![p] = Answer(ce_inflight[p])]
  /\ ce_inflight' = [ce_inflight EXCEPT ![p] = NoLLMCall]
  /\ ce_pc' = [ce_pc EXCEPT ![p] = "prompts"]
  /\ UNCHANGED <<ce_input, ce_prompts, ce_responses, ce_result, collected_results, llm_calls,
                 notConcVars>>

\* base.py 169-174: one prompt per question, each built with the context
PromptsBuilt(p) ==
  /\ ce_pc[p] = "prompts"
  /\ ce_prompts' = [ce_prompts EXCEPT ![p] =
       [i \in DOMAIN ce_input[p].questions |->
          [stage |-> "question", context |-> ContextHandedOn(p),
           q |-> ce_input[p].questions[i], levels |-> <<>>]]]
  /\ ce_pc' = [ce_pc EXCEPT ![p] = "fanout"]
  /\ UNCHANGED <<ce_input, ce_context, ce_responses, ce_inflight, ce_result, collected_results,
                 llm_calls, notConcVars>>

\* base.py 87: run_stage sends the next prompt
QuestionAsked(p) ==
  /\ ce_pc[p] = "fanout"
  /\ ce_inflight[p] = NoLLMCall
  /\ ce_prompts[p] # <<>>
  /\ Sends(p, Head(ce_prompts[p]))
  /\ ce_prompts' = [ce_prompts EXCEPT ![p] = Tail(ce_prompts[p])]
  /\ UNCHANGED <<ce_input, ce_pc, ce_context, ce_responses, ce_result, collected_results,
                 notConcVars>>

\* base.py 87, 176-178: a per-question call returns; after the last one
\* run_stage returns the list
QuestionAnswered(p) ==
  /\ ce_pc[p] = "fanout"
  /\ ce_inflight[p] # NoLLMCall
  /\ ce_responses' = [ce_responses EXCEPT ![p] = Append(ce_responses[p], Answer(ce_inflight[p]))]
  /\ ce_inflight' = [ce_inflight EXCEPT ![p] = NoLLMCall]
  /\ ce_pc' = [ce_pc EXCEPT ![p] = IF ce_prompts[p] = <<>> THEN "final" ELSE "fanout"]
  /\ UNCHANGED <<ce_input, ce_context, ce_prompts, ce_result, collected_results, llm_calls,
                 notConcVars>>

\* base.py 181-189: get_prompt is handed the context and the per-question
\* results, and the final call is sent
FinalAsked(p) ==
  /\ ce_pc[p] = "final"
  /\ Sends(p, [stage |-> "final", context |-> ContextHandedOn(p), q |-> 0,
               levels |-> ce_responses[p]])
  /\ ce_pc' = [ce_pc EXCEPT ![p] = "final_wait"]
  /\ UNCHANGED <<ce_input, ce_context, ce_prompts, ce_responses, ce_result, collected_results,
                 notConcVars>>

\* base.py 189-200: the final call returns and evaluate returns the score
FinalAnswered(p) ==
  /\ ce_pc[p] = "final_wait"
  /\ ce_result' = [ce_result EXCEPT ![p] = Answer(ce_inflight[p])]
  /\ ce_inflight' = [ce_inflight EXCEPT ![p] = NoLLMCall]
  /\ ce_pc' = [ce_pc EXCEPT ![p] = "done"]
  /\ UNCHANGED <<ce_input, ce_context, ce_prompts, ce_responses, collected_results, llm_calls,
                 notConcVars>>

\* benchmark.py 241-252: metric_results.append(result)
ResultCollected(p) ==
  /\ ce_pc[p] = "done"
  /\ collected_results' = Append(collected_results, [evaluation |-> p, score |-> ce_result[p]])
  /\ ce_pc' = [ce_pc EXCEPT ![p] = "collected"]
  /\ UNCHANGED <<ce_input, ce_context, ce_prompts, ce_responses, ce_inflight, ce_result,
                 llm_calls, notConcVars>>

NextConcurrent ==
  \E p \in Evaluations :
    \/ \E input \in ConcurrentInputs : EvaluationStarts(p, input)
    \/ ContextAnswered(p)
    \/ PromptsBuilt(p)
    \/ QuestionAsked(p)
    \/ QuestionAnswered(p)
    \/ FinalAsked(p)
    \/ FinalAnswered(p)
    \/ ResultCollected(p)

SpecConcurrent == Init /\ [][NextConcurrent]_vars

\* ===================================================== properties (Spec)
BuildsOf(stage) == {i \in DOMAIN log : log[i].ev = "build" /\ log[i].stage = stage}

IssuedBefore(stage, i) ==
  \E j \in 1..(i - 1) : log[j].ev = "issue" /\ log[j].stage = stage

ReturnsBefore(stage, i) ==
  {j \in 1..(i - 1) : log[j].ev = "return" /\ log[j].stage = stage}

FanOutOnePerQuestion ==
  (/\ pc \in {"final", "final_wait", "done"}
   /\ OverridesPerQuestion(metric)
   /\ quiz.some
   /\ Len(quiz.questions) >= 1)
  => /\ per_question_results.some
     /\ Len(per_question_results.results) = Len(quiz.questions)
     /\ \A i \in DOMAIN quiz.questions :
          per_question_results.results[i].q = quiz.questions[i]

\* C4: every score evaluate returns and every score the runner stores lies
\* in [0, 100]; a final response with a score outside the range ends the
\* evaluation with an error and without a result.
ScoresInRange ==
  /\ result.some => 0 <= result.score /\ result.score <= 10000
  /\ pc = "done" => result.some
  /\ \A i \in DOMAIN metric_results : 0 <= metric_results[i] /\ metric_results[i] <= 10000
  /\ (structured.hasScore /\ (structured.score < 0 \/ structured.score > 10000))
       => pc = "raised" /\ err.kind = "ValueError" /\ ~result.some

ScoresInRangeWitness ==
  /\ Len(metric_results) >= 1
  /\ pc = "raised"
  /\ err.at = "parse"
  /\ structured.hasScore
  /\ structured.score > 10000

\* C9: an evaluation entered without an llm_client ends at once with a
\* ValueError that names the metric: no prompt was built, no call was made.
NoClientFailsFirst ==
  (~llm_client /\ DefinesGetPrompt(metric) /\ pc \notin {"idle", "entry"})
  => /\ pc = "raised"
     /\ err = [kind |-> "ValueError", names |-> metric, at |-> "entry"]
     /\ log = <<>>
     /\ prompts = <<>>
     /\ ~final_prompt.built
     /\ ~result.some

NoClientFailsFirstWitness ==
  /\ pc = "raised"
  /\ err.at = "entry"
  /\ metric = "staged"
  /\ quiz.some /\ Len(quiz.questions) >= 1
  /\ source_text = "text"

\* C10: a metric with a fan-out stage evaluated without a quiz raises an
\* error for that stage; the evaluation never goes on to the final stage with
\* the fan-out stage passed over.
FanOutRequiresQuiz ==
  (OverridesPerQuestion(metric) /\ llm_client /\ ~quiz.some)
  => pc \notin {"final", "final_wait", "done"}

Issues == {i \in DOMAIN log : log[i].ev = "issue"}

UndeclaredParams == {n \in params : n \notin Parameters(metric)}

\* C11: an evaluation called with a parameter name the metric does not
\* declare fails with a ValueError before any LLM call is made: no call is
\* ever issued for it and it never returns a result.
UnknownParamFailsBeforeCalls ==
  (llm_client /\ DefinesGetPrompt(metric) /\ UndeclaredParams # {})
  => /\ Issues = {}
     /\ pc # "done"
     /\ pc = "raised" => err.kind = "ValueError"

\* C12: when an LLM call raises, the evaluation ends with that exception:
\* the failed call is the last thing the evaluation did (no prompt is built
\* and no call issued after it), and there is no result.
LLMErrorPropagates ==
  err.kind = "LLMError"
  => /\ pc = "raised"
     /\ ~result.some
     /\ log # <<>>
     /\ log[Len(log)].ev = "issue"
     /\ log[Len(log)].stage = err.at
     /\ inflight.stage = err.at

LLMErrorPropagatesWitness ==
  /\ pc = "raised"
  /\ err.kind = "LLMError"
  /\ err.at = "question"
  /\ Len(responses) >= 1
  /\ context.ran

\* C13: whenever reading the score from the final payload fails (the score
\* key is absent or its value lies outside [0, 100]) the evaluation ends
\* with one and the same kind of error, and without a result.
ScoreErrorKindUniform ==
  (pc = "raised" /\ err.at = "parse")
  => /\ err.kind = "ValueError"
     /\ ~result.some

\* C14: a successful evaluation has issued one call per stage without
\* fan-out and one call per quiz question for the fan-out stage: 1 + n + 1
\* for a metric with a context stage and a fan-out stage evaluated with a
\* source text on a quiz of n questions, 1 for a metric with neither.
CallsPerPhase ==
  pc = "done" =>
    /\ (OverridesContext(metric) /\ OverridesPerQuestion(metric)
        /\ source_text = "text" /\ quiz.some)
         => Cardinality(Issues) = 1 + Len(quiz.questions) + 1
    /\ (~OverridesContext(metric) /\ ~OverridesPerQuestion(metric))
         => Cardinality(Issues) = 1

\* C16: the score evaluate returns is rounded to one decimal place, and
\* raw_response is the final payload the score was read from.
ScoreRoundedToTenth ==
  result.some
  => /\ result.score % 10 = 0
     /\ result.raw_response = structured

\* ============================================= properties (SpecCoverage)
ScoreAccepted == cov_pc \in {"parse", "done"}

SubScoreSum(r) == r.breadth + r.depth + r.balance + r.critical

\* C5: a coverage score response is accepted only if its final_score equals
\* breadth + depth + balance + critical exactly.
FinalScoreIsExactSum ==
  ScoreAccepted => score_response.final_score = SubScoreSum(score_response)

\* C6: for every granularity the four weights _get_weights returns are
\* non-negative integers that sum to 100.
WeightsSumTo100 ==
  \A w \in {weights_call.weights} \cup {score_prompt.weights} :
    w # NoWeights =>
      /\ \A f \in DOMAIN w : w[f] \in Nat
      /\ w.breadth + w.depth + w.balance + w.critical = 100

WeightsSumTo100Witness ==
  /\ weights_call.granularity = "broad"
  /\ weights_call.weights.breadth = 40

\* C7: the weights in the score prompt are those of the granularity passed
\* to evaluate: broad 40/20, detailed 20/40, balanced 30/30, balance and
\* critical 20 each; the default is used only when none was passed.
GranularitySelectsWeights ==
  score_prompt.built =>
    LET w == score_prompt.weights
    IN /\ granularity_param = "broad" => w.breadth = 40 /\ w.depth = 20
       /\ granularity_param = "detailed" => w.breadth = 20 /\ w.depth = 40
       /\ granularity_param = "balanced" => w.breadth = 30 /\ w.depth = 30
       /\ w.balance = 20 /\ w.critical = 20
       /\ granularity_param # "None" => score_prompt.granularity = granularity_param

\* C15: the critical concepts the score prompt scores against are exactly
\* the list the extract phase produced, an empty list included: the prompt
\* tells the judge to use that list and never to identify concepts itself.
CriticalConceptsFixedByExtract ==
  score_prompt.built
  => /\ score_prompt.critical_fixed
     /\ score_prompt.critical_divisor = SourceCritical(phase_input)

Aggregated == {aggregations[k] : k \in DOMAIN aggregations}

InputMetrics == AllMetrics(benchmark_results)

InputOfPair(m, e) ==
  {i \in DOMAIN InputMetrics :
     InputMetrics[i].metric_name = m /\ InputMetrics[i].evaluator_model = e}

Occurrences(v, scores) == Cardinality({i \in DOMAIN scores : scores[i] = v})

\* C17: aggregate raises the empty-input error exactly when the results
\* list is empty, and then no statistic has been computed; on a non-empty
\* list, one whose records hold no metric results included, it returns.
AggregateRaisesIffEmpty ==
  agg_call.fn = "aggregate"
  => /\ agg_err \in {"none", "ValueError"}
     /\ agg_err = "ValueError" <=> benchmark_results = <<>>
     /\ agg_err = "ValueError" => aggregations = <<>>
     /\ (benchmark_results # <<>> /\ InputMetrics = <<>>) => aggregations = <<>>

AggregateRaisesIffEmptyWitness ==
  /\ agg_call.fn = "aggregate"
  /\ agg_err = "ValueError"
  /\ benchmark_results = <<>>

\* C18: for every (metric name, evaluator model) pair occurring in the
\* input, aggregate returns an aggregation of that pair whose score list
\* holds exactly the scores of the metric results with that pair (each as
\* often as it occurs), whose num_runs is their count and whose statistics
\* are those of that list.
ScoresGroupedByPair ==
  (agg_call.fn = "aggregate" /\ agg_err = "none")
  => \A m \in MetricNames, e \in EvaluatorModels :
       InputOfPair(m, e) # {} =>
         \E a \in Aggregated :
           /\ a.metric_name = m
           /\ a.evaluator_model = e
           /\ a.num_runs = Cardinality(InputOfPair(m, e))
           /\ \A v \in Scores :
                Occurrences(v, a.per_run_scores)
                  = Cardinality({i \in InputOfPair(m, e) : InputMetrics[i].score = v})
           /\ a.mean = Mean(a.per_run_scores)
           /\ a.median = Median(a.per_run_scores)
           /\ a.std_dev = StdDev(a.per_run_scores)
           /\ a.min = Min(a.per_run_scores)
           /\ a.max = Max(a.per_run_scores)

\* C19: a group built from exactly one score has std_dev 0 and mean, median,
\* min and max equal to that score; neither aggregate nor aggregate_by_metric
\* raises because of such a group.
SingleSampleStdDevZero ==
  /\ (agg_call.fn # "none" /\ benchmark_results # <<>>) => agg_err = "none"
  /\ \A a \in Aggregated :
       a.num_runs = 1 =>
         LET score == a.per_run_scores[1]
         IN /\ a.std_dev = 0
            /\ a.mean = [num |-> score, den |-> 1]
            /\ a.median = [num |-> score, den |-> 1]
            /\ a.min = score
            /\ a.max = score

SingleSampleStdDevZeroWitness ==
  /\ agg_call.fn = "aggregate_by_metric"
  /\ \E a \in Aggregated : a.num_runs = 1 /\ a.per_run_scores = <<6000>>

\* C20: in every group min and max are the smallest and the largest score,
\* mean is the sum over the count, median is the middle score (for an even
\* count the mean of the two middle scores), so both lie between min and
\* max; the scores 40 and 60 of difficulty under mock give mean 50, median
\* 50, min 40, max 60 and num_runs 2.
StatisticsOfGroup ==
  \A a \in Aggregated :
    LET scores == a.per_run_scores
        n == Len(scores)
        AtMost(x) == Cardinality({i \in DOMAIN scores : scores[i] <= x})
        AtLeast(x) == Cardinality({i \in DOMAIN scores : scores[i] >= x})
    IN /\ n >= 1 /\ a.num_runs = n
       /\ \E i \in DOMAIN scores : scores[i] = a.min
       /\ \E i \in DOMAIN scores : scores[i] = a.max
       /\ \A i \in DOMAIN scores : a.min <= scores[i] /\ scores[i] <= a.max
       /\ a.mean.den = n /\ a.mean.num = SumSeq(scores)
       /\ IF n % 2 = 1
            THEN /\ a.median.den = 1
                 /\ \E i \in DOMAIN scores : scores[i] = a.median.num
                 /\ 2 * AtMost(a.median.num) > n
                 /\ 2 * AtLeast(a.median.num) > n
            ELSE /\ a.median.den = 2
                 /\ \E i, j \in DOMAIN scores :
                      /\ i # j
                      /\ scores[i] <= scores[j]
                      /\ a.median.num = scores[i] + scores[j]
                      /\ 2 * AtMost(scores[i]) >= n
                      /\ 2 * AtLeast(scores[j]) >= n
       /\ a.min * a.median.den <= a.median.num
       /\ a.median.num <= a.max * a.median.den
       /\ a.min * n <= a.mean.num
       /\ a.mean.num <= a.max * n
       /\ (a.metric_name = "difficulty" /\ a.evaluator_model = "mock"
           /\ scores \in {<<4000, 6000>>, <<6000, 4000>>})
            => /\ a.mean.num = 5000 * a.mean.den
               /\ a.median.num = 5000 * a.median.den
               /\ a.min = 4000
               /\ a.max = 6000
               /\ a.num_runs = 2

StatisticsOfGroupWitness ==
  /\ agg_call.fn = "aggregate"
  /\ \E a \in Aggregated :
       /\ a.metric_name = "difficulty"
       /\ a.evaluator_model = "mock"
       /\ a.per_run_scores = <<4000, 6000>>
       /\ a.mean.num = 10000

\* C21: in the result of aggregate, total_runs is the number of distinct run
\* numbers among the input records (neither the number of records nor of
\* scores), and quiz_ids holds every quiz id of the input exactly once and
\* nothing else.
TotalRunsAndQuizIds ==
  (agg_call.fn = "aggregate" /\ agg_err = "none")
  => /\ agg_summary.total_runs
          = Cardinality({n \in 1..MaxRuns :
                           \E i \in DOMAIN benchmark_results :
                             benchmark_results[i].run_number = n})
     /\ \A i \in DOMAIN agg_summary.quiz_ids : agg_summary.quiz_ids[i] \in QuizIds
     /\ \A q \in QuizIds :
          Cardinality({i \in DOMAIN agg_summary.quiz_ids : agg_summary.quiz_ids[i] = q})
            = IF \E i \in DOMAIN benchmark_results : benchmark_results[i].quiz_id = q
                THEN 1 ELSE 0

TotalRunsAndQuizIdsWitness ==
  /\ agg_call.fn = "aggregate"
  /\ Len(benchmark_results) = 2
  /\ Len(InputMetrics) = 3
  /\ agg_summary.total_runs = 1
  /\ Len(agg_summary.quiz_ids) = 2

ByQuizIsAggregatePerQuiz ==
  agg_call.fn = "aggregate_by_quiz"
  => /\ agg_err = "none"
     /\ DOMAIN by_quiz = {benchmark_results[i].quiz_id : i \in DOMAIN benchmark_results}
     /\ \A q \in DOMAIN by_quiz :
          LET of_q == SelectSeq(benchmark_results, LAMBDA r : r.quiz_id = q)
          IN /\ by_quiz[q].results = of_q
             /\ by_quiz[q].aggregations = Aggregations(of_q)
     /\ \A i \in DOMAIN benchmark_results :
          Cardinality({q \in DOMAIN by_quiz :
                         \E j \in DOMAIN by_quiz[q].results :
                           by_quiz[q].results[j] = benchmark_results[i]}) = 1

ByQuizIsAggregatePerQuizWitness ==
  /\ agg_call.fn = "aggregate_by_quiz"
  /\ Cardinality(DOMAIN by_quiz) = 2
  /\ \A q \in DOMAIN by_quiz : by_quiz[q].aggregations # <<>>

\* C27: aggregate applied to the scores that a group retained, under the
\* group's metric and evaluator, returns one group with the same score list
\* and the same mean, median, std_dev, min, max and num_runs.
ReaggregationIsNoOp ==
  agg_call.fn = "reaggregate"
  => /\ agg_err = "none"
     /\ Cardinality(Aggregated) = 1
     /\ \A a \in Aggregated :
          \A k \in DOMAIN agg_previous :
            /\ a.metric_name = agg_previous[k].metric_name
            /\ a.evaluator_model = agg_previous[k].evaluator_model
            /\ a.per_run_scores = agg_previous[k].per_run_scores
            /\ a.mean = agg_previous[k].mean
            /\ a.median = agg_previous[k].median
            /\ a.std_dev = agg_previous[k].std_dev
            /\ a.min = agg_previous[k].min
            /\ a.max = agg_previous[k].max
            /\ a.num_runs = agg_previous[k].num_runs

ReaggregationIsNoOpWitness ==
  /\ agg_call.fn = "reaggregate"
  /\ Len(agg_input) = 2
  /\ \E a \in Aggregated : a.per_run_scores = <<4000, 6000>>

\* C29: aggregate_by_metric(results, m) has an entry for evaluator e exactly
\* when aggregate(results) has an aggregation of (m, e), and the two have
\* the same statistics and the same score list in the same order.
ByMetricAgreesWithAggregate ==
  agg_call.fn = "aggregate_by_metric"
  => LET whole == Aggregations(benchmark_results)
         OfPair(e) == {k \in DOMAIN whole :
                         /\ whole[k].metric_name = agg_call.metric_name
                         /\ whole[k].evaluator_model = e}
     IN \A e \in EvaluatorModels :
          /\ e \in DOMAIN aggregations <=> OfPair(e) # {}
          /\ \A k \in OfPair(e) :
               e \in DOMAIN aggregations => aggregations[e] = whole[k]

\* ============================================ properties (SpecRegistry)
RegisteredNames == {reg_metrics[i].name : i \in DOMAIN reg_metrics}

\* C26: after any sequence of register and clear, the registry lists exactly
\* the names registered since the last clear, each once; create(n) returns
\* an instance named n when n is listed and raises otherwise; register of a
\* class that is not a metric raises and leaves the registry as it was.
RegistryListsRegistered ==
  /\ RegisteredNames = reg_listed
  /\ Len(reg_metrics) = Cardinality(reg_listed)
  /\ reg_call.op = "list_metrics"
       => /\ reg_err = "none"
          /\ {reg_result.names[i] : i \in DOMAIN reg_result.names} = reg_listed
          /\ Len(reg_result.names) = Cardinality(reg_listed)
  /\ reg_call.op = "create"
       => IF reg_call.arg \in reg_listed
            THEN reg_err = "none" /\ reg_result.instance = reg_call.arg
            ELSE reg_err # "none"
  /\ (reg_call.op = "register" /\ reg_call.arg \notin MetricClasses)
       => reg_err # "none" /\ reg_metrics = reg_before

RegistryListsRegisteredWitness ==
  /\ reg_call.op = "list_metrics"
  /\ Len(reg_result.names) = 2
  /\ \E i \in DOMAIN reg_metrics : reg_metrics[i].class = "DifficultySubclass"

\* ============================================== properties (SpecRunner)
\* the (metric configuration, evaluator entry, question) combinations of a
\* quiz: enabled and registered metric, initialised evaluator, every
\* question for a question-level metric and one entry for a quiz-level one
Combinations(config, a_quiz) ==
  {t \in (DOMAIN EnabledMetrics(config)) \X (1..2) \X (1..2) :
     LET mc == EnabledMetrics(config)[t[1]]
     IN /\ mc.name \in RegisteredMetrics
        /\ t[2] \in DOMAIN mc.evaluators
        /\ mc.evaluators[t[2]] \in InitialisedEvaluators
        /\ IF Scope(mc.name) = "question_level"
             THEN t[3] \in DOMAIN a_quiz.questions
             ELSE t[3] = 1}

CallsOf(r, quiz_id) ==
  SelectSeq(evaluate_calls, LAMBDA c : c.run_number = r /\ c.quiz_id = quiz_id)

CombinationOf(c) == <<c.metric_index, c.evaluator_index, c.question_index>>

RunReturned == runner_pc \in {"returned", "aggregated"}

\* C24: whichever evaluations raise, run returns one record per (run, quiz),
\* run-major and in quiz order; every evaluation of every quiz is attempted
\* whether or not an earlier one failed; a failed evaluation adds no metric
\* result and a successful one adds exactly one.
RunSurvivesFailures ==
  /\ runner_pc = "raised" => (runner_config.quizzes = <<>> /\ evaluate_calls = <<>>)
  /\ RunReturned
       => LET quizzes == runner_config.quizzes
              nq == Len(quizzes)
          IN /\ Len(all_results) = runner_config.runs * nq
             /\ \A r \in 1..runner_config.runs, j \in 1..nq :
                  LET rec == all_results[(r - 1) * nq + j]
                      calls == CallsOf(r, quizzes[j].quiz_id)
                      returned == SelectSeq(calls, LAMBDA c : c.outcome = "returned")
                  IN /\ rec.run_number = r
                     /\ rec.quiz_id = quizzes[j].quiz_id
                     /\ {CombinationOf(calls[k]) : k \in DOMAIN calls}
                          = Combinations(runner_config, quizzes[j])
                     /\ Len(calls) = Cardinality(Combinations(runner_config, quizzes[j]))
                     /\ Len(rec.metrics) = Len(returned)
                     /\ \A k \in DOMAIN returned :
                          /\ rec.metrics[k].metric_name = returned[k].metric_name
                          /\ rec.metrics[k].question_id = returned[k].question_id
                          /\ rec.metrics[k].evaluator_model = ModelOf(returned[k].evaluator_name)
                          /\ rec.metrics[k].quiz_id = rec.quiz_id

RunSurvivesFailuresWitness ==
  /\ runner_pc = "returned"
  /\ Len(all_results) = 4
  /\ \E i, j \in DOMAIN evaluate_calls :
       /\ i < j
       /\ evaluate_calls[i].outcome = "raised"
       /\ evaluate_calls[j].outcome = "returned"
       /\ evaluate_calls[i].run_number = evaluate_calls[j].run_number
       /\ evaluate_calls[i].quiz_id = evaluate_calls[j].quiz_id

EvaluatorsNotPooled ==
  runner_pc = "aggregated"
  => \A name \in RunnerMetricNames, e \in EvaluatorNames :
       LET produced == {k \in DOMAIN evaluate_calls :
                          /\ evaluate_calls[k].outcome = "returned"
                          /\ evaluate_calls[k].metric_name = name
                          /\ evaluate_calls[k].evaluator_name = e}
       IN produced # {}
            => \E key \in DOMAIN run_aggregations :
                 /\ run_aggregations[key].metric_name = name
                 /\ run_aggregations[key].evaluator_model = ModelOf(e)
                 /\ run_aggregations[key].num_runs = Cardinality(produced)

\* ========================================== properties (SpecConcurrent)
\* the score of an evaluation that runs with no other beside it: the calls
\* of base.py 165-189 one after the other
EvaluatedAlone(input) ==
  LET alone_context == Answer([stage |-> "context", context |-> input.source_text,
                               q |-> 0, levels |-> <<>>])
      alone_levels == [i \in DOMAIN input.questions |->
                         Answer([stage |-> "question", context |-> alone_context,
                                 q |-> input.questions[i], levels |-> <<>>])]
  IN Answer([stage |-> "final", context |-> alone_context, q |-> 0,
             levels |-> alone_levels])

\* C28: two evaluate calls whose LLM calls interleave in any order each
\* return what they return when run alone; what one evaluation holds is not
\* changed by the other, and the only write to shared state is the append
\* of each finished result, once, to the result collection.
EvaluationsIndependent ==
  /\ \A p \in Evaluations :
       /\ ce_pc[p] \in {"done", "collected"} => ce_result[p] = EvaluatedAlone(ce_input[p])
       /\ Cardinality({i \in DOMAIN collected_results : collected_results[i].evaluation = p})
            = IF ce_pc[p] = "collected" THEN 1 ELSE 0
  /\ \A i \in DOMAIN collected_results :
       collected_results[i].score = EvaluatedAlone(ce_input[collected_results[i].evaluation])

EvaluationsIndependentWitness ==
  /\ \A p \in Evaluations : ce_pc[p] = "collected"
  /\ ce_input[1].source_text # ce_input[2].source_text
  /\ collected_results[1].score # collected_results[2].score
  /\ \E i, j, k \in DOMAIN llm_calls :
       /\ i < j /\ j < k
       /\ llm_calls[i].evaluation = 1
       /\ llm_calls[j].evaluation = 2
       /\ llm_calls[k].evaluation = 1
       /\ llm_calls[j].stage = "context"
       /\ llm_calls[k].stage = "question"

====
